---------------------------- MODULE Spec2Model ----------------------------
(***************************************************************************)
(* A model of the restsuite / suitepy NetSuite client:                     *)
(*   - NetsuiteOAuth (auth.py): the OAuth 1.0a signer,                     *)
(*   - Rest / NetSuiteRest (base_rest.py, rest.py): the HTTP verb wrappers,*)
(*   - NetSuiteQL (suiteql.py): the paginated SuiteQL query loop.          *)
(*                                                                         *)
(* Python strings are sequences of one-character strings, so that          *)
(* percent-encoding, splitting and sorting are computed character by       *)
(* character.  Python's None is the value NONE.  A Python dict is a        *)
(* sequence of <<key, value>> pairs in insertion order.                    *)
(***************************************************************************)
EXTENDS Integers, Sequences, FiniteSets, TLC

VARIABLES
    component,   \* which object of the library the caller drives
    pureOp,      \* the static method applied: "encode" or "parse"
    pureArg,     \* its argument
    pureDone,    \* whether it has returned
    encoded,     \* return value of encode_oauth
    parsed,      \* return value of parse_url_parameters
    auth,        \* the client's NetsuiteOAuth instance (self.auth)
    uuidClock,   \* uuid1's time-based counter, which never repeats in a process
    clock,       \* time.time() in whole seconds
    call,        \* arguments of the last verb wrapper call
    sent,        \* the request that call handed to the requests library
    outcome,     \* how that call ended
    signing,     \* arguments and locals of the last generate_auth_header call
    pc,          \* where the suiteql call stands
    callNo,      \* number of suiteql calls made on the client
    next_url,    \* suiteql's local next_url
    moreQueries, \* suiteql's local moreQueries
    queryRun,    \* suiteql's local queryRun
    response_body, \* NetSuiteQL.response_body
    inflight,    \* requests posted and not yet answered
    resp,        \* the HTTP response in hand
    requests,    \* the URLs this suiteql call has posted to, in order
    pages,       \* the responses this suiteql call has received, in order
    result,      \* what the suiteql call returned
    log,         \* the generate_auth_header calls made on a reused signer, in order
    threads      \* the generate_auth_header calls in progress on a shared signer

pureVars == <<pureOp, pureArg, pureDone, encoded, parsed>>
signerVars == <<auth, uuidClock, clock, signing>>
restVars == <<call, sent, outcome>>
qlVars == <<pc, callNo, next_url, moreQueries, queryRun, response_body, inflight,
            resp, requests, pages, result>>
callerVars == <<log, threads>>
vars == <<component, pureVars, signerVars, restVars, qlVars, callerVars>>

---------------------------------------------------------------------------
(* Bounds of the model *)

\* longest argument of encode_oauth that is enumerated
MaxEncLen == 3
\* most query parameters of a request whose parameters are normalized
MaxParams == 3
\* longest URL handed to parse_url_parameters that is enumerated
MaxUrlLen == 5
\* number of generate_auth_header calls on one signer
MaxSigns == 2
\* last second the clock reaches
MaxClock == 2
\* number of suiteql calls on one client
MaxCalls == 2
\* number of requests one client posts over all its suiteql calls
MaxRequests == 4

---------------------------------------------------------------------------
(* Strings *)

\* Python's None
NONE == <<"<None>">>

\* the printable ASCII characters, in code order: Ascii[i] has code 31 + i
\* (the backslash, code 92, and the backtick, code 96, are written by name)
Ascii ==
    <<" ","!","\"","#","$","%","&","'","(",")","*","+",",","-",".","/",
      "0","1","2","3","4","5","6","7","8","9",":",";","<","=",">","?",
      "@","A","B","C","D","E","F","G","H","I","J","K","L","M","N","O",
      "P","Q","R","S","T","U","V","W","X","Y","Z","[","<backslash>","]","^","_",
      "<backtick>","a","b","c","d","e","f","g","h","i","j","k","l","m","n","o",
      "p","q","r","s","t","u","v","w","x","y","z","{","|","}","~">>

\* one character outside ASCII (U+00E9), to exercise multi-octet UTF-8
EAcute == "e'"

\* ord(c), as a table over the characters of the model
OrdTable == [c \in {Ascii[i] : i \in 1..Len(Ascii)} \cup {EAcute} |->
                IF c = EAcute THEN 233
                ELSE 31 + (CHOOSE i \in 1..Len(Ascii) : Ascii[i] = c)]

Ord(c) == OrdTable[c]

\* c.encode("utf-8"), as a sequence of octets
Utf8(c) == IF c = EAcute THEN <<195, 169>> ELSE <<Ord(c)>>

HexDigits == <<"0","1","2","3","4","5","6","7","8","9","A","B","C","D","E","F">>

\* "%{:02X}".format(octet)
PctOctet(b) == <<"%", HexDigits[(b \div 16) + 1], HexDigits[(b % 16) + 1]>>

Range(s) == {s[i] : i \in 1..Len(s)}

\* s[i:] restricted to the characters from index i (1-based) to the end
Drop(s, n) == SubSeq(s, n + 1, Len(s))

\* index of the first occurrence of c in s, 0 when there is none
IndexOf(s, c) == IF c \in Range(s)
                 THEN CHOOSE i \in 1..Len(s) : s[i] = c /\ \A j \in 1..(i-1) : s[j] # c
                 ELSE 0

\* s.split(c): the segments between every occurrence of c
RECURSIVE Split(_, _)
Split(s, c) ==
    LET i == IndexOf(s, c)
    IN  IF i = 0 THEN <<s>>
        ELSE <<SubSeq(s, 1, i - 1)>> \o Split(Drop(s, i), c)

\* s.split(c, 1): split at the first occurrence of c only
Split1(s, c) ==
    LET i == IndexOf(s, c)
    IN  IF i = 0 THEN <<s>>
        ELSE <<SubSeq(s, 1, i - 1), Drop(s, i)>>

\* s.replace(a, b) for single characters
Replace(s, a, b) == [i \in 1..Len(s) |-> IF s[i] = a THEN b ELSE s[i]]

\* all strings over alphabet A of length at most n
StringsUpTo(A, n) == UNION {[1..k -> A] : k \in 0..n}

---------------------------------------------------------------------------
(* urllib.parse.quote / quote_plus / unquote / parse_qs, as auth.py uses them *)

Letters == {Ascii[i] : i \in 34..59} \cup {Ascii[i] : i \in 66..91}
Digits  == {Ascii[i] : i \in 17..26}

\* urllib's _ALWAYS_SAFE: the RFC 3986 unreserved characters
AlwaysSafe == Letters \cup Digits \cup {"_", ".", "-", "~"}

RECURSIVE PctOctets(_)
PctOctets(bs) == IF bs = <<>> THEN <<>>
                 ELSE PctOctet(Head(bs)) \o PctOctets(Tail(bs))

\* urllib.parse._Quoter(safe): the table from a character to its quoted
\* form, the character itself if it is always safe or in `safe` and the
\* %XX of its UTF-8 octets otherwise
AllChars == Range(Ascii) \cup {EAcute}

Quoter(safe) == [c \in AllChars |-> IF c \in AlwaysSafe \cup safe THEN <<c>>
                                    ELSE PctOctets(Utf8(c))]

\* the quoter tables of the two quote calls quote_plus(s, safe='-._~') makes
OAuthSafe == {"-", ".", "_", "~"}
OAuthQuoter == Quoter(OAuthSafe)
OAuthQuoterKeepingSpace == Quoter(OAuthSafe \cup {" "})

\* urllib.parse.quote(s, safe), given the quoter of `safe`: the quoted forms
\* of the characters, joined in order (computed by halving the string)
RECURSIVE QuoteRange(_, _, _, _)
QuoteRange(s, lo, hi, quoter) ==
    IF lo > hi THEN <<>>
    ELSE IF lo = hi THEN quoter[s[lo]]
    ELSE LET mid == (lo + hi) \div 2
         IN  QuoteRange(s, lo, mid, quoter) \o QuoteRange(s, mid + 1, hi, quoter)

Quote(s, quoter) == QuoteRange(s, 1, Len(s), quoter)

\* urllib.parse.quote_plus(s, safe), given the quoters of `safe` and of
\* `safe` with the space: a string with a space is quoted keeping its
\* spaces, which are then replaced by "+"
QuotePlus(s, quoter, quoterKeepingSpace) ==
    IF \A i \in 1..Len(s) : s[i] # " " THEN Quote(s, quoter)
    ELSE Replace(Quote(s, quoterKeepingSpace), " ", "+")

\* value of a hexadecimal digit character (either case), -1 for any other
HexVal(c) ==
    IF c \in Digits THEN Ord(c) - 48
    ELSE IF c \in {"A","B","C","D","E","F"} THEN Ord(c) - 55
    ELSE IF c \in {"a","b","c","d","e","f"} THEN Ord(c) - 87
    ELSE -1

\* urllib.parse.unquote(s), for escapes of printable ASCII octets; any
\* other "%" is left as it is
RECURSIVE Unquote(_)
Unquote(s) ==
    IF s = <<>> THEN <<>>
    ELSE IF /\ Head(s) = "%"
            /\ Len(s) >= 3
            /\ HexVal(s[2]) >= 0
            /\ HexVal(s[3]) >= 0
            /\ 16 * HexVal(s[2]) + HexVal(s[3]) \in 32..126
         THEN <<Ascii[16 * HexVal(s[2]) + HexVal(s[3]) - 31]>> \o Unquote(Drop(s, 3))
         ELSE <<Head(s)>> \o Unquote(Tail(s))

\* dict lookup and assignment on a sequence of <<key, value>> pairs
DictKeys(d) == {d[i][1] : i \in 1..Len(d)}
DictGet(d, k) == d[CHOOSE i \in 1..Len(d) : d[i][1] = k][2]
DictSet(d, k, v) ==
    IF k \in DictKeys(d)
    THEN [i \in 1..Len(d) |-> IF d[i][1] = k THEN <<k, v>> ELSE d[i]]
    ELSE Append(d, <<k, v>>)

\* urllib.parse.parse_qsl(qs) with its defaults keep_blank_values=False,
\* strict_parsing=False, separator="&": the (name, value) pairs, in order
RECURSIVE ParseQslPairs(_)
ParseQslPairs(fields) ==
    IF fields = <<>> THEN <<>>
    ELSE LET nv == Split1(Head(fields), "=")
             rest == ParseQslPairs(Tail(fields))
         IN  IF Head(fields) = <<>> THEN rest
             ELSE IF Len(nv) # 2 THEN rest
             ELSE IF Len(nv[2]) = 0 THEN rest
             ELSE <<<<Unquote(Replace(nv[1], "+", " ")),
                      Unquote(Replace(nv[2], "+", " "))>>>> \o rest

ParseQsl(qs) == ParseQslPairs(Split(qs, "&"))

\* urllib.parse.parse_qs(qs)[name][0] for every name: parse_qs collects
\* the values of a name in a list, of which auth.py keeps the first
RECURSIVE FirstValues(_, _)
FirstValues(pairs, acc) ==
    IF pairs = <<>> THEN acc
    ELSE FirstValues(Tail(pairs),
                     IF Head(pairs)[1] \in DictKeys(acc) THEN acc
                     ELSE Append(acc, Head(pairs)))

---------------------------------------------------------------------------
(* NetsuiteOAuth: the static helpers *)

\* NetsuiteOAuth.encode_oauth(_string)
encode_oauth(s) == QuotePlus(s, OAuthQuoter, OAuthQuoterKeepingSpace)

\* NetsuiteOAuth.parse_url_parameters(url): (base_url, parameters), where
\* parameters is None (isNone) or a dict (items)
parse_url_parameters(url) ==
    LET url_list == Split(url, "?")
    IN  [base_url   |-> url_list[1],
         parameters |-> IF Len(url_list) > 1
                        THEN [isNone |-> FALSE,
                              items  |-> FirstValues(ParseQsl(url_list[2]), <<>>)]
                        ELSE [isNone |-> TRUE, items |-> <<>>]]

---------------------------------------------------------------------------
(* String literals of auth.py and base_rest.py *)

K_consumer_key     == <<"o","a","u","t","h","_","c","o","n","s","u","m","e","r","_","k","e","y">>
K_token            == <<"o","a","u","t","h","_","t","o","k","e","n">>
K_signature_method == <<"o","a","u","t","h","_","s","i","g","n","a","t","u","r","e","_","m","e","t","h","o","d">>
K_timestamp        == <<"o","a","u","t","h","_","t","i","m","e","s","t","a","m","p">>
K_nonce            == <<"o","a","u","t","h","_","n","o","n","c","e">>
K_version          == <<"o","a","u","t","h","_","v","e","r","s","i","o","n">>
K_signature        == <<"o","a","u","t","h","_","s","i","g","n","a","t","u","r","e">>

HmacSha256Name == <<"H","M","A","C","-","S","H","A","2","5","6">>
Version10      == <<"1",".","0">>
NoneText       == <<"N","o","n","e">>

GET    == <<"G","E","T">>
POST   == <<"P","O","S","T">>
PUT    == <<"P","U","T">>
PATCH  == <<"P","A","T","C","H">>
DELETE == <<"D","E","L","E","T","E">>

H_Prefer        == <<"P","r","e","f","e","r">>
H_ContentType   == <<"C","o","n","t","e","n","t","-","T","y","p","e">>
H_Authorization == <<"A","u","t","h","o","r","i","z","a","t","i","o","n">>
H_CacheControl  == <<"c","a","c","h","e","-","c","o","n","t","r","o","l">>

V_transient == <<"t","r","a","n","s","i","e","n","t">>
V_json      == <<"a","p","p","l","i","c","a","t","i","o","n","/","j","s","o","n">>
V_nocache   == <<"n","o","-","c","a","c","h","e">>

\* the pieces of the Authorization value between the inserted fields
OA_realm     == <<"O","A","u","t","h"," ","r","e","a","l","m","=","\"">>
OA_consumer  == <<"\"",",","o","a","u","t","h","_","c","o","n","s","u","m","e","r","_","k","e","y","=","\"">>
OA_token     == <<"\"",",","o","a","u","t","h","_","t","o","k","e","n","=","\"">>
OA_method_ts == <<"\"",",","o","a","u","t","h","_","s","i","g","n","a","t","u","r","e","_","m","e","t","h","o","d","=","\"","H","M","A","C","-","S","H","A","2","5","6","\"",",","o","a","u","t","h","_","t","i","m","e","s","t","a","m","p","=","\"">>
OA_nonce     == <<"\"",",","o","a","u","t","h","_","n","o","n","c","e","=","\"">>
OA_version_sig == <<"\"",",","o","a","u","t","h","_","v","e","r","s","i","o","n","=","\"","1",".","0","\"",",","o","a","u","t","h","_","s","i","g","n","a","t","u","r","e","=","\"">>
OA_end       == <<"\"">>

---------------------------------------------------------------------------
(* Python built-ins used by the signer *)

\* str(n) for a natural number n
RECURSIVE DecStr(_)
DecStr(n) == IF n < 10 THEN <<HexDigits[n + 1]>>
             ELSE DecStr(n \div 10) \o <<HexDigits[(n % 10) + 1]>>

\* "{}".format(x): None prints as "None"
Fmt(x) == IF x = NONE THEN NoneText ELSE x

\* a < b for Python strings: lexicographic by code point, a proper prefix
\* being smaller
StrLess(a, b) ==
    LET n == IF Len(a) < Len(b) THEN Len(a) ELSE Len(b)
        differ == {i \in 1..n : a[i] # b[i]}
    IN  IF differ = {} THEN Len(a) < Len(b)
        ELSE LET d == CHOOSE i \in differ : \A j \in differ : i <= j
             IN  Ord(a[d]) < Ord(b[d])

\* sorted(keys), by insertion into the sorted prefix
RECURSIVE InsertSorted(_, _)
InsertSorted(k, ks) ==
    IF ks = <<>> THEN <<k>>
    ELSE IF StrLess(k, Head(ks)) THEN <<k>> \o ks
    ELSE <<Head(ks)>> \o InsertSorted(k, Tail(ks))

RECURSIVE Sorted(_)
Sorted(ks) == IF ks = <<>> THEN <<>>
              ELSE InsertSorted(Head(ks), Sorted(Tail(ks)))

\* hmac.new(key, msg, sha256).digest() then base64.b64encode(...).decode():
\* SHA-256 is not computed; the digest is the term {key|msg}, which is
\* equal for equal (key, msg) and different otherwise
B64HmacSha256(key, msg) == <<"{">> \o key \o <<"|">> \o msg \o <<"}">>

---------------------------------------------------------------------------
(* NetsuiteOAuth: the signer *)

NoDict == [isNone |-> TRUE, items |-> <<>>]

\* NetsuiteOAuth.__init__
NetsuiteOAuthInit(account_id, consumer_key, consumer_secret, token_key, token_secret) ==
    [realm            |-> account_id,
     consumer_key     |-> consumer_key,
     consumer_secret  |-> consumer_secret,
     token_key        |-> token_key,
     token_secret     |-> token_secret,
     signature_method |-> HmacSha256Name,
     nonce            |-> NONE,
     timestamp        |-> NONE,
     request_parameters |-> NONE,
     signature        |-> NONE,
     normalized_request_parameters |-> NONE,
     headers          |-> NoDict,
     base_string      |-> NONE,
     oauth_string     |-> NONE]

\* mutant: the nonce is the random part alone
generate_nonce_Uuid4Only(self, uuid4hex, uuid1hex) ==
    [self EXCEPT !.nonce = uuid4hex]

\* mutant: a nonce once generated is kept
generate_nonce_Once(self, uuid4hex, uuid1hex) ==
    IF self.nonce = NONE THEN [self EXCEPT !.nonce = uuid4hex \o uuid1hex]
    ELSE self

\* generate_nonce: uuid4().hex + uuid1().hex
generate_nonce(self, uuid4hex, uuid1hex) ==
    [self EXCEPT !.nonce = uuid4hex \o uuid1hex]

\* generate_timestamp: str(int(time.time()))
generate_timestamp(self, now) ==
    [self EXCEPT !.timestamp = DecStr(now)]

\* normalize_request_parameters, step 1: the local dict request_params
RECURSIVE DictUpdate(_, _)
DictUpdate(d, pairs) ==
    IF pairs = <<>> THEN d
    ELSE DictUpdate(DictSet(d, Head(pairs)[1], Head(pairs)[2]), Tail(pairs))

RequestParams(self, query_parameters) ==
    LET request_params ==
            << <<K_consumer_key, self.consumer_key>>,
               <<K_token, self.token_key>>,
               <<K_signature_method, self.signature_method>>,
               <<K_timestamp, self.timestamp>>,
               <<K_nonce, self.nonce>>,
               <<K_version, Version10>> >>
    IN  IF ~query_parameters.isNone /\ query_parameters.items # <<>>
        THEN DictUpdate(request_params, query_parameters.items)
        ELSE request_params

\* mutant: the entries are joined in insertion order
SortedParams_AsInserted(request_params) == request_params

\* normalize_request_parameters, step 2: the dict rebuilt in sorted key order
SortedParams(request_params) ==
    LET keys == Sorted([i \in 1..Len(request_params) |-> request_params[i][1]])
    IN  [i \in 1..Len(keys) |-> <<keys[i], DictGet(request_params, keys[i])>>]

\* normalize_request_parameters, step 3: "k=v&" for every pair, the last
\* character removed
RECURSIVE ParamString(_)
ParamString(pairs) ==
    IF pairs = <<>> THEN <<>>
    ELSE Fmt(Head(pairs)[1]) \o <<"=">> \o Fmt(Head(pairs)[2]) \o <<"&">>
         \o ParamString(Tail(pairs))

DropLast(s) == IF s = <<>> THEN <<>> ELSE SubSeq(s, 1, Len(s) - 1)

normalize_request_parameters(self, query_parameters) ==
    [self EXCEPT !.normalized_request_parameters =
        encode_oauth(DropLast(ParamString(SortedParams(
            RequestParams(self, query_parameters)))))]

\* a signer whose nonce and timestamp have been generated
SignerWithNonce ==
    generate_timestamp(
        generate_nonce(NetsuiteOAuthInit(<<"r">>, <<"c","k">>, <<"c","s">>,
                                         <<"t","k">>, <<"t","s">>),
                       <<"a">>, <<"0">>),
        1)

\* generate_base_string, its last statement: self.base_string
SetBaseString(self, http_method, base_url) ==
    [self EXCEPT !.base_string =
        Fmt(http_method) \o <<"&">> \o encode_oauth(base_url) \o <<"&">>
        \o self.normalized_request_parameters]

\* generate_base_string
generate_base_string(self, http_method, url, uuid4hex, uuid1hex, now) ==
    LET s1 == generate_timestamp(generate_nonce(self, uuid4hex, uuid1hex), now)
        pu == parse_url_parameters(url)
        s2 == normalize_request_parameters(s1, pu.parameters)
    IN  SetBaseString(s2, http_method, pu.base_url)

\* generate_signature
generate_signature(self) ==
    LET key  == Fmt(self.consumer_secret) \o <<"&">> \o Fmt(self.token_secret)
        text == self.base_string
    IN  [self EXCEPT !.signature = encode_oauth(B64HmacSha256(key, text))]

\* the default header bundle of generate_auth_header
DefaultHeaders(oauth_string) ==
    << <<H_Prefer, V_transient>>,
       <<H_ContentType, V_json>>,
       <<H_Authorization, oauth_string>>,
       <<H_CacheControl, V_nocache>> >>

\* generate_auth_header after generate_signature: self.oauth_string,
\* self.headers and the return; whether it raised (str + None is a
\* TypeError), the signer afterwards and the headers returned
AssembleHeader(s1) ==
    LET concatRaises == \/ s1.realm = NONE
                        \/ s1.consumer_key = NONE
                        \/ s1.token_key = NONE
        oauth_string == OA_realm \o s1.realm \o OA_consumer \o s1.consumer_key
                        \o OA_token \o s1.token_key \o OA_method_ts \o s1.timestamp
                        \o OA_nonce \o s1.nonce \o OA_version_sig \o s1.signature
                        \o OA_end
    IN  IF concatRaises
        THEN [self |-> s1, raised |-> TRUE, headers |-> <<>>]
        ELSE [self    |-> [s1 EXCEPT !.oauth_string = oauth_string,
                                     !.headers = [isNone |-> FALSE,
                                                  items  |-> DefaultHeaders(oauth_string)]],
              raised  |-> FALSE,
              headers |-> DefaultHeaders(oauth_string)]

\* generate_auth_header: the signer after the call, whether the call raised
\* and the headers it returned
generate_auth_header(self, http_method, url, uuid4hex, uuid1hex, now) ==
    AssembleHeader(generate_signature(
        generate_base_string(self, http_method, url, uuid4hex, uuid1hex, now)))

---------------------------------------------------------------------------
(* Rest (suitepy/base_rest.py) and NetSuiteRest (rest.py): the verb wrappers *)

\* bool(x) for a headers or body argument: None, {} and "" are falsy
Truthy(arg) == \/ arg.kind = "dict" /\ arg.items # <<>>
               \/ arg.kind = "str" /\ arg.text # <<>>

\* isinstance(x, dict)
IsDict(arg) == arg.kind = "dict"

\* mutant: the caller's headers are merged into the default bundle
OverrideHeaders_Merge(headers, default_headers) ==
    IF Truthy(headers)
    THEN DictSet(DictUpdate(default_headers, headers.items), H_Authorization,
                 DictGet(default_headers, H_Authorization))
    ELSE default_headers

\* "override headers if necessary": the header set handed to requests
OverrideHeaders(headers, default_headers) ==
    IF Truthy(headers)
    THEN DictSet(headers.items, H_Authorization, DictGet(default_headers, H_Authorization))
    ELSE default_headers

\* the method each wrapper passes to generate_auth_header
SignMethodGet    == GET
SignMethodPost   == PATCH
SignMethodPut    == PATCH
SignMethodPatch  == PATCH
SignMethodDelete == GET

NoRequest == [issued |-> FALSE, method |-> <<>>, url |-> <<>>, headers |-> <<>>,
              hasBody |-> FALSE]

NoSigning == [called |-> FALSE, http_method |-> <<>>, url |-> <<>>,
              request_params |-> <<>>, raised |-> FALSE]

\* the locals of one generate_auth_header(http_method, url) call on `self`
SigningOf(self, http_method, url, uuid4hex, uuid1hex, now, raised) ==
    [called |-> TRUE, http_method |-> http_method, url |-> url,
     request_params |->
         RequestParams(generate_timestamp(generate_nonce(self, uuid4hex, uuid1hex), now),
                       parse_url_parameters(url).parameters),
     raised |-> raised]

\* the body shared by get, post, put, patch and delete: type checks,
\* generate_auth_header(signMethod, url), header override, requests.<verb>
VerbWrapper(verb, signMethod, sendMethod, takesBody, url, headers, body, uuid4hex) ==
    /\ call' = [verb |-> verb, url |-> url, headers |-> headers, body |-> body]
    /\ IF Truthy(headers) /\ ~IsDict(headers)
       THEN /\ outcome' = "TypeError(headers)"
            /\ sent' = NoRequest
            /\ UNCHANGED signerVars
       ELSE IF takesBody /\ ~IsDict(body)
       THEN /\ outcome' = "TypeError(body)"
            /\ sent' = NoRequest
            /\ UNCHANGED signerVars
       ELSE \E r \in {generate_auth_header(auth, signMethod, url, uuid4hex,
                                            DecStr(uuidClock), clock)} :
                /\ uuidClock < MaxSigns
                /\ auth' = r.self
                /\ uuidClock' = uuidClock + 1
                /\ signing' = SigningOf(auth, signMethod, url, uuid4hex,
                                        DecStr(uuidClock), clock, r.raised)
                /\ UNCHANGED clock
                /\ IF r.raised
                   THEN /\ outcome' = "TypeError(sign)"
                        /\ sent' = NoRequest
                   ELSE /\ outcome' = "response"
                        /\ sent' = [issued  |-> TRUE,
                                    method  |-> sendMethod,
                                    url     |-> url,
                                    headers |-> OverrideHeaders(headers, r.headers),
                                    hasBody |-> takesBody]
    /\ UNCHANGED <<component, callerVars, pureVars, qlVars>>

\* the arguments the caller passes
U_plain   == <<"h",":","/","r">>
U_sorted  == <<"h",":","/","r","?","b","=","2","&","a","=","1">>
U_collide == <<"h",":","/","r","?","o","a","u","t","h","_","n","o","n","c","e","=","x","&","b","=">>
U_sig     == <<"h",":","/","r","?","o","a","u","t","h","_","s","i","g","n","a","t","u","r","e","=","s">>
U_twoq    == <<"h",":","/","r","?","b","=","1","?","c","=","2">>

ArgNone       == [kind |-> "none", items |-> <<>>, text |-> <<>>]
ArgDict(d)    == [kind |-> "dict", items |-> d, text |-> <<>>]
ArgStr(t)     == [kind |-> "str", items |-> <<>>, text |-> t]

HdrCustom == << <<<<"X","-","C","u","s","t","o","m">>, <<"1">>>> >>
HdrStale  == << <<H_Authorization, <<"s","t","a","l","e">>>>,
                <<H_Prefer, <<"r","e","s","p","o","n","d","-","a","s","y","n","c">>>> >>
BodyDict  == << <<<<"i","d">>, <<"1">>>> >>

\* the headers and body arguments the caller passes to a wrapper
RestInputs ==
    { [url |-> U_sorted, headers |-> ArgNone,            body |-> ArgDict(BodyDict)],
      [url |-> U_sorted, headers |-> ArgDict(HdrCustom), body |-> ArgDict(BodyDict)],
      [url |-> U_sorted, headers |-> ArgDict(HdrStale),  body |-> ArgDict(BodyDict)],
      [url |-> U_sorted, headers |-> ArgDict(<<>>),      body |-> ArgDict(<<>>)],
      [url |-> U_sorted, headers |-> ArgStr(<<"x">>),    body |-> ArgDict(BodyDict)],
      [url |-> U_sorted, headers |-> ArgStr(<<>>),       body |-> ArgDict(BodyDict)],
      [url |-> U_sorted, headers |-> ArgNone,            body |-> ArgStr(<<"x">>)],
      [url |-> U_sorted, headers |-> ArgDict(HdrCustom), body |-> ArgNone] }

\* uuid4().hex: random
Uuid4Hex == {<<"a">>, <<"b">>}

\* uuid4().hex in the calls the clients make: one value is followed
ClientUuid4Hex == {<<"a">>}

\* Rest.get
RestGet ==
    /\ component = "rest"
    /\ \E in \in RestInputs, u4 \in ClientUuid4Hex :
           VerbWrapper("get", SignMethodGet, GET, FALSE, in.url, in.headers, ArgNone, u4)

\* Rest.post
RestPost ==
    /\ component = "rest"
    /\ \E in \in RestInputs, u4 \in ClientUuid4Hex :
           VerbWrapper("post", SignMethodPost, POST, TRUE, in.url, in.headers, in.body, u4)

\* Rest.put
RestPut ==
    /\ component = "rest"
    /\ \E in \in RestInputs, u4 \in ClientUuid4Hex :
           VerbWrapper("put", SignMethodPut, PUT, TRUE, in.url, in.headers, in.body, u4)

\* NetSuiteRest.patch
RestPatch ==
    /\ component = "rest"
    /\ \E in \in RestInputs, u4 \in ClientUuid4Hex :
           VerbWrapper("patch", SignMethodPatch, PATCH, TRUE, in.url, in.headers, in.body, u4)

\* Rest.delete
RestDelete ==
    /\ component = "rest"
    /\ \E in \in RestInputs, u4 \in ClientUuid4Hex :
           VerbWrapper("delete", SignMethodDelete, DELETE, FALSE, in.url, in.headers, ArgNone, u4)

\* a second of wall-clock time passes
Tick ==
    /\ component \in {"signer", "reuse"}
    /\ clock < MaxClock
    /\ clock' = clock + 1
    /\ UNCHANGED <<component, callerVars, pureVars, auth, uuidClock, signing, restVars, qlVars>>

\* the credentials a client is constructed with: token_key and token_secret
\* default to None, and nothing checks the others
R_realm == <<"r">>
V_ck == <<"c","k">>
V_cs == <<"c","s">>
V_tk == <<"t","k">>
V_ts == <<"t","s">>

Credentials ==
    { [ck |-> V_ck, cs |-> V_cs, tk |-> V_tk, ts |-> V_ts],
      [ck |-> V_ck, cs |-> V_cs, tk |-> NONE, ts |-> NONE],
      [ck |-> NONE, cs |-> V_cs, tk |-> V_tk, ts |-> V_ts],
      [ck |-> V_ck, cs |-> NONE, tk |-> V_tk, ts |-> V_ts],
      [ck |-> V_ck, cs |-> V_cs, tk |-> V_tk, ts |-> NONE] }

\* the credentials of the clients whose wrappers are driven: all four, or
\* the constructor's defaults for the token
ClientCredentials ==
    { [ck |-> V_ck, cs |-> V_cs, tk |-> V_tk, ts |-> V_ts],
      [ck |-> V_ck, cs |-> V_cs, tk |-> NONE, ts |-> NONE] }

NoCall == [verb |-> "none", url |-> <<>>, headers |-> ArgNone, body |-> ArgNone]

\* NetsuiteOAuth(...) as the caller constructs it
InitSigner ==
    /\ component = "signer"
    /\ \E c \in Credentials :
           auth = NetsuiteOAuthInit(R_realm, c.ck, c.cs, c.tk, c.ts)
    /\ uuidClock = 0
    /\ clock = 1
    /\ signing = NoSigning

\* the methods and URLs the caller signs
SignMethods == {GET, <<"g","e","t">>}
SignUrls == {U_plain, U_sorted, U_collide, U_sig, U_twoq}

\* a direct call of generate_auth_header(http_method, url)
CallGenerateAuthHeader ==
    /\ component = "signer"
    /\ uuidClock < MaxSigns
    /\ \E m \in SignMethods, url \in SignUrls, u4 \in Uuid4Hex :
           \E r \in {generate_auth_header(auth, m, url, u4, DecStr(uuidClock), clock)} :
               /\ auth' = r.self
               /\ signing' = SigningOf(auth, m, url, u4, DecStr(uuidClock), clock, r.raised)
    /\ uuidClock' = uuidClock + 1
    /\ UNCHANGED <<component, callerVars, pureVars, clock, restVars, qlVars>>

\* the URLs signed on a signer that is used again
ReuseUrls == {U_plain, U_sorted, U_collide}

\* NetsuiteOAuth(...) of a caller who signs several requests with it
InitReuse ==
    /\ component = "reuse"
    /\ \E c \in ClientCredentials :
           auth = NetsuiteOAuthInit(R_realm, c.ck, c.cs, c.tk, c.ts)
    /\ uuidClock = 0
    /\ clock = 1
    /\ signing = NoSigning
    /\ log = <<>>
    /\ threads = <<>>

\* one more generate_auth_header("GET", url) on the same signer; the call,
\* the values drawn in it and what it returned are logged
SignAgain ==
    /\ component = "reuse"
    /\ uuidClock < MaxSigns
    /\ \E url \in ReuseUrls, u4 \in Uuid4Hex :
           \E r \in {generate_auth_header(auth, GET, url, u4, DecStr(uuidClock), clock)} :
               /\ auth' = r.self
               /\ signing' = SigningOf(auth, GET, url, u4, DecStr(uuidClock), clock, r.raised)
               /\ log' = Append(log, [http_method |-> GET, url |-> url,
                                      uuid4hex |-> u4, uuid1hex |-> DecStr(uuidClock),
                                      now |-> clock, nonce |-> r.self.nonce,
                                      raised |-> r.raised, headers |-> r.headers])
    /\ uuidClock' = uuidClock + 1
    /\ UNCHANGED <<component, threads, pureVars, clock, restVars, qlVars>>

\* two generate_auth_header calls made on one signer at the same time
Threads == {1, 2}

NoReturn == [raised |-> FALSE, headers |-> <<>>, nonce |-> NONE,
             timestamp |-> NONE, signature |-> NONE]

\* a NetsuiteOAuth shared by two callers, each about to call
\* generate_auth_header(http_method, url)
InitShared ==
    /\ component = "shared"
    /\ auth = NetsuiteOAuthInit(R_realm, V_ck, V_cs, V_tk, V_ts)
    /\ uuidClock = 0
    /\ clock = 1
    /\ signing = NoSigning
    /\ log = <<>>
    /\ \E m \in {GET, POST}, u1, u2 \in {U_plain, U_sorted} :
           threads = [t \in Threads |->
                         [pc |-> "nonce",
                          http_method |-> IF t = 1 THEN GET ELSE m,
                          url |-> IF t = 1 THEN u1 ELSE u2,
                          base_url |-> <<>>,
                          ret |-> NoReturn]]

\* generate_base_string: self.generate_nonce()
StepNonce ==
    /\ component = "shared"
    /\ \E t \in Threads, u4 \in ClientUuid4Hex :
           /\ threads[t].pc = "nonce"
           /\ auth' = generate_nonce(auth, u4, DecStr(uuidClock))
           /\ threads' = [threads EXCEPT ![t].pc = "timestamp"]
    /\ uuidClock' = uuidClock + 1
    /\ UNCHANGED <<component, log, pureVars, clock, signing, restVars, qlVars>>

\* generate_base_string: self.generate_timestamp()
StepTimestamp ==
    /\ component = "shared"
    /\ \E t \in Threads :
           /\ threads[t].pc = "timestamp"
           /\ auth' = generate_timestamp(auth, clock)
           /\ threads' = [threads EXCEPT ![t].pc = "normalize"]
    /\ UNCHANGED <<component, log, pureVars, uuidClock, clock, signing, restVars, qlVars>>

\* generate_base_string: parse_url_parameters(url) into locals, then
\* self.normalize_request_parameters(url_params)
StepNormalize ==
    /\ component = "shared"
    /\ \E t \in Threads :
           /\ threads[t].pc = "normalize"
           /\ LET pu == parse_url_parameters(threads[t].url)
              IN  /\ auth' = normalize_request_parameters(auth, pu.parameters)
                  /\ threads' = [threads EXCEPT ![t].pc = "base_string",
                                                ![t].base_url = pu.base_url]
    /\ UNCHANGED <<component, log, pureVars, uuidClock, clock, signing, restVars, qlVars>>

\* generate_base_string: self.base_string = ...
StepBaseString ==
    /\ component = "shared"
    /\ \E t \in Threads :
           /\ threads[t].pc = "base_string"
           /\ auth' = SetBaseString(auth, threads[t].http_method, threads[t].base_url)
           /\ threads' = [threads EXCEPT ![t].pc = "signature"]
    /\ UNCHANGED <<component, log, pureVars, uuidClock, clock, signing, restVars, qlVars>>

\* generate_auth_header: self.generate_signature()
StepSignature ==
    /\ component = "shared"
    /\ \E t \in Threads :
           /\ threads[t].pc = "signature"
           /\ auth' = generate_signature(auth)
           /\ threads' = [threads EXCEPT ![t].pc = "header"]
    /\ UNCHANGED <<component, log, pureVars, uuidClock, clock, signing, restVars, qlVars>>

\* generate_auth_header: self.oauth_string, self.headers, return
\* self.headers; the nonce, timestamp and signature written into the
\* header are kept with what the call returned
StepHeader ==
    /\ component = "shared"
    /\ \E t \in Threads :
           /\ threads[t].pc = "header"
           /\ \E r \in {AssembleHeader(auth)} :
                  /\ auth' = r.self
                  /\ threads' = [threads EXCEPT
                                    ![t].pc = "done",
                                    ![t].ret = [raised |-> r.raised,
                                                headers |-> r.headers,
                                                nonce |-> auth.nonce,
                                                timestamp |-> auth.timestamp,
                                                signature |-> auth.signature]]
    /\ UNCHANGED <<component, log, pureVars, uuidClock, clock, signing, restVars, qlVars>>

\* Rest.__init__
InitRest ==
    /\ component = "rest"
    /\ \E c \in ClientCredentials :
           auth = NetsuiteOAuthInit(R_realm, c.ck, c.cs, c.tk, c.ts)
    /\ uuidClock = 0
    /\ clock = 1
    /\ signing = NoSigning
    /\ call = NoCall
    /\ sent = NoRequest
    /\ outcome = "none"

---------------------------------------------------------------------------
(* NetSuiteQL (suiteql.py): the paginated query *)

\* NetSuiteQL.__init__: self.url for account "r"
QueryUrl ==
    <<"h","t","t","p","s",":","/","/">> \o R_realm \o
    <<".","s","u","i","t","e","t","a","l","k",".","a","p","i",".","n","e","t","s","u","i","t","e",".","c","o","m","/","s","e","r","v","i","c","e","s","/","r","e","s","t","/","q","u","e","r","y","/","v","1","/","s","u","i","t","e","q","l">>

\* URLs the server puts under "next"
N1 == <<"h",":","/","q","?","o","=","1">>
N2 == <<"h",":","/","q","?","o","=","2">>
SelfLink == [rel |-> "self", href |-> <<"h",":","/","q">>]

\* the items of a page: opaque records, here numbers
I1 == <<1>>
I2 == <<2, 1>>

\* an HTTP response: ok, status_code and the JSON body.  errorBody tells
\* whether the body of a response that is not OK is the error document
\* with title, type, status and o:errorDetails
Page(ok, status, errorBody, links, hasMore, items) ==
    [ok |-> ok, status_code |-> status, errorBody |-> errorBody,
     links |-> links, hasMore |-> hasMore, items |-> items]

\* the responses the server may give
ServerPages ==
    {Page(TRUE, 200, FALSE, <<SelfLink, [rel |-> "next", href |-> n]>>, TRUE, it) :
        n \in {N1, N2}, it \in {I1, I2}}
    \cup {Page(TRUE, 200, FALSE, <<SelfLink>>, FALSE, it) : it \in {I1, I2, <<>>}}
    \cup {Page(TRUE, 200, FALSE, <<SelfLink>>, TRUE, I1),
          Page(TRUE, 204, FALSE, <<>>, FALSE, <<>>),
          Page(FALSE, 400, TRUE, <<>>, FALSE, <<>>),
          Page(FALSE, 502, FALSE, <<>>, FALSE, <<>>)}

NoPage == Page(FALSE, 0, FALSE, <<>>, FALSE, <<>>)

\* NetSuiteResponse.__init__: reading title, type, status and
\* o:errorDetails of a response that is not OK raises when the body is
\* not the error document
ResponseInitRaises(response) == ~response.ok /\ ~response.errorBody

\* QueryResponse.__init__: the fields parsed from the response
RECURSIVE LinksDict(_, _)
LinksDict(links, acc) ==
    IF links = <<>> THEN acc
    ELSE LinksDict(Tail(links), DictSet(acc, Head(links).rel, Head(links).href))

\* mutant: the body is read whatever the status
ReadsBody_Always(response) == response.ok

\* QueryResponse.__init__: whether response.json() is read
ReadsBody(response) == response.ok /\ response.status_code # 204

\* response.json() of a response without content raises JSONDecodeError
JsonRaises(response) == response.status_code = 204

\* QueryResponse(results) raises: in NetSuiteResponse.__init__, or reading
\* a body that is not there
QueryResponseRaises(response) ==
    ResponseInitRaises(response) \/ (ReadsBody(response) /\ JsonRaises(response))

QueryResponse(response) ==
    IF ReadsBody(response)
    THEN [ok |-> response.ok, links |-> LinksDict(response.links, <<>>),
          hasMore |-> response.hasMore, items |-> response.items]
    ELSE [ok |-> response.ok, links |-> <<>>, hasMore |-> FALSE, items |-> <<>>]

NoResult == [kind |-> "none", value |-> <<>>]

\* NetSuiteQL.__init__
InitQL ==
    /\ component = "suiteql"
    /\ \E c \in ClientCredentials :
           auth = NetsuiteOAuthInit(R_realm, c.ck, c.cs, c.tk, c.ts)
    /\ uuidClock = 0
    /\ clock = 1
    /\ signing = NoSigning
    /\ pc = "idle"
    /\ callNo = 0
    /\ next_url = <<>>
    /\ moreQueries = FALSE
    /\ queryRun = 0
    /\ response_body = <<>>
    /\ inflight = <<>>
    /\ resp = NoPage
    /\ requests = <<>>
    /\ pages = <<>>
    /\ result = NoResult

IdleQL ==
    /\ pc = "idle" /\ callNo = 0 /\ next_url = <<>> /\ moreQueries = FALSE
    /\ queryRun = 0 /\ response_body = <<>> /\ inflight = <<>> /\ resp = NoPage
    /\ requests = <<>> /\ pages = <<>> /\ result = NoResult

\* suiteql is called: the locals before the loop
CallSuiteql ==
    /\ component = "suiteql"
    /\ pc \in {"idle", "returned", "raised"}
    /\ callNo < MaxCalls
    /\ callNo' = callNo + 1
    /\ moreQueries' = TRUE
    /\ next_url' = QueryUrl
    /\ queryRun' = 0
    /\ requests' = <<>>
    /\ pages' = <<>>
    /\ result' = NoResult
    /\ pc' = "loop"
    /\ UNCHANGED <<component, callerVars, pureVars, signerVars, restVars, response_body,
                   inflight, resp>>

\* one pass of the loop head and self.query(next_url, query_string):
\* generate_auth_header("POST", url), then requests.post
Query ==
    /\ component = "suiteql"
    /\ pc = "loop"
    /\ moreQueries
    /\ uuidClock < MaxRequests
    /\ moreQueries' = FALSE
    /\ \E u4 \in ClientUuid4Hex :
       \E r \in {generate_auth_header(auth, POST, next_url, u4, DecStr(uuidClock), clock)} :
           /\ auth' = r.self
           /\ signing' = SigningOf(auth, POST, next_url, u4, DecStr(uuidClock), clock,
                                   r.raised)
           /\ IF r.raised
              THEN /\ pc' = "raised"
                   /\ UNCHANGED <<inflight, requests>>
              ELSE /\ pc' = "waiting"
                   /\ inflight' = Append(inflight, [method |-> POST, url |-> next_url])
                   /\ requests' = Append(requests, next_url)
    /\ uuidClock' = uuidClock + 1
    /\ UNCHANGED <<component, callerVars, pureVars, clock, restVars, callNo, next_url, queryRun,
                   response_body, resp, pages, result>>

\* the server answers the posted request
ServerRespond ==
    /\ component = "suiteql"
    /\ pc = "waiting"
    /\ inflight # <<>>
    /\ \E p \in ServerPages : resp' = p
    /\ inflight' = Tail(inflight)
    /\ pc' = "parse"
    /\ UNCHANGED <<component, callerVars, pureVars, signerVars, restVars, callNo, next_url,
                   moreQueries, queryRun, response_body, requests, pages, result>>

\* mutant: the next link is not followed, the previous URL is requested again
NextUrlAfter_Stale(response, url) == url

\* mutant: items already in the list are not added again
ListExtend_Dedup(list, items) ==
    list \o SelectSeq(items, LAMBDA x : x \notin {list[i] : i \in 1..Len(list)})

\* moreQueries after the branch on response.ok: the loop head has set it
\* to False, and an OK page sets it to its hasMore
MoreQueriesAfter(response, more) ==
    IF response.ok THEN response.hasMore ELSE more

\* next_url after an OK page: the "next" link when the page has more (the
\* lookup of a missing key raises: NextLinkMissing)
NextUrlAfter(response, url) ==
    IF response.hasMore /\ "next" \in DictKeys(response.links)
    THEN DictGet(response.links, "next")
    ELSE url

\* mutant: a missing "next" is not an error, as with links.get('next', next_url)
NextLinkMissing_Ignored(response, more) == FALSE

\* response.links['next'] raises KeyError
NextLinkMissing(response, more) == more /\ "next" \notin DictKeys(response.links)

\* self.response_body.extend(response.items)
ListExtend(list, items) == list \o items

\* the rest of the loop body: QueryResponse(results), the branch on
\* response.ok, and the loop test, up to the next query or the return
ProcessResponse ==
    /\ component = "suiteql"
    /\ pc = "parse"
    /\ pages' = Append(pages, resp)
    /\ resp' = NoPage
    /\ IF QueryResponseRaises(resp)
       THEN /\ pc' = "raised"
            /\ UNCHANGED <<moreQueries, next_url, response_body, queryRun, result>>
       ELSE LET response == QueryResponse(resp)
            IN  IF response.ok
                THEN /\ moreQueries' = MoreQueriesAfter(response, moreQueries)
                     /\ IF NextLinkMissing(response, moreQueries')
                        THEN /\ pc' = "raised"
                             /\ UNCHANGED <<next_url, response_body, queryRun, result>>
                        ELSE /\ next_url' = IF moreQueries'
                                            THEN NextUrlAfter(response, next_url)
                                            ELSE next_url
                             /\ response_body' = ListExtend(response_body, response.items)
                             /\ queryRun' = queryRun + 1
                             /\ IF moreQueries'
                                THEN pc' = "loop" /\ UNCHANGED result
                                ELSE /\ pc' = "returned"
                                     /\ result' = [kind |-> "list", value |-> response_body']
                ELSE /\ pc' = "returned"
                     /\ result' = [kind |-> "dict", value |-> <<>>]
                     /\ UNCHANGED <<moreQueries, next_url, response_body, queryRun>>
    /\ UNCHANGED <<component, callerVars, pureVars, signerVars, restVars, callNo, inflight, requests>>

---------------------------------------------------------------------------
(* The static helpers applied to enumerated arguments *)

EncAlphabet == {"a", "Z", "7", "-", ".", "_", "~", " ", "+", "/", EAcute}
UrlAlphabet == {"a", "b", "1", "?", "=", "&"}

\* URLs with escapes, beyond the enumerated ones
ExtraUrls == { <<"h",":","/","x","?","a","+","b","=","%","2","0","1">>,
               <<"h",":","/","x","?","b","=","1","&","c","=","2">> }

NoParse == [base_url |-> <<>>, parameters |-> [isNone |-> TRUE, items |-> <<>>]]

InitPure ==
    /\ component = "static"
    /\ \/ pureOp = "encode" /\ pureArg \in StringsUpTo(EncAlphabet, MaxEncLen)
       \/ pureOp = "parse"  /\ pureArg \in StringsUpTo(UrlAlphabet, MaxUrlLen) \cup ExtraUrls
    /\ pureDone = FALSE
    /\ encoded = <<>>
    /\ parsed = NoParse

\* the variables of the components that are not driven
IdleSigner ==
    /\ auth = NetsuiteOAuthInit(R_realm, V_ck, V_cs, V_tk, V_ts)
    /\ uuidClock = 0
    /\ clock = 1
    /\ signing = NoSigning

IdleRest == call = NoCall /\ sent = NoRequest /\ outcome = "none"

\* no call logged, no call in progress
IdleCaller == log = <<>> /\ threads = <<>>

IdlePure == /\ pureOp = "none" /\ pureArg = <<>> /\ pureDone = FALSE
            /\ encoded = <<>> /\ parsed = NoParse

CallEncodeOauth ==
    /\ component = "static" /\ pureOp = "encode" /\ ~pureDone
    /\ encoded' = encode_oauth(pureArg)
    /\ pureDone' = TRUE
    /\ UNCHANGED <<component, callerVars, pureOp, pureArg, parsed, signerVars, restVars, qlVars>>

CallParseUrlParameters ==
    /\ component = "static" /\ pureOp = "parse" /\ ~pureDone
    /\ parsed' = parse_url_parameters(pureArg)
    /\ pureDone' = TRUE
    /\ UNCHANGED <<component, callerVars, pureOp, pureArg, encoded, signerVars, restVars, qlVars>>

\* the query parameters normalized: names before, among and after the OAuth
\* names, one of them an OAuth name, and values that need encoding
NormKeys == {<<"B">>, <<"a">>, K_nonce, <<"z">>}
NormValues == {<<"1">>, <<"x"," ","=">>}

\* the dicts of at most n entries over these names and values, in every
\* insertion order
DictsUpTo(n) ==
    {d \in UNION {[1..k -> NormKeys \X NormValues] : k \in 0..n} :
        \A i, j \in 1..Len(d) : i # j => d[i][1] # d[j][1]}

\* normalize_request_parameters is applied to two dicts with the same entries
InitNormalize ==
    /\ component = "static"
    /\ pureOp = "normalize"
    /\ \E d1, d2 \in DictsUpTo(MaxParams) :
           /\ {d1[i] : i \in 1..Len(d1)} = {d2[i] : i \in 1..Len(d2)}
           /\ pureArg = <<d1, d2>>
    /\ pureDone = FALSE
    /\ encoded = <<>>
    /\ parsed = NoParse

CallNormalize ==
    /\ component = "static" /\ pureOp = "normalize" /\ ~pureDone
    /\ encoded' = [i \in 1..2 |->
                      normalize_request_parameters(
                          SignerWithNonce,
                          [isNone |-> FALSE, items |-> pureArg[i]]
                      ).normalized_request_parameters]
    /\ pureDone' = TRUE
    /\ UNCHANGED <<component, callerVars, pureOp, pureArg, parsed, signerVars, restVars, qlVars>>

InitNormalization == InitNormalize /\ IdleSigner /\ IdleRest /\ IdleQL /\ IdleCaller

SpecNormalize == InitNormalization /\ [][CallNormalize]_vars

NextPure == CallEncodeOauth \/ CallParseUrlParameters

InitStatic == InitPure /\ IdleSigner /\ IdleRest /\ IdleQL /\ IdleCaller

SpecPure == InitStatic /\ [][NextPure]_vars

NextRest == RestGet \/ RestPost \/ RestPut \/ RestPatch \/ RestDelete

InitRestClient == InitRest /\ IdlePure /\ IdleQL /\ IdleCaller

SpecRest == InitRestClient /\ [][NextRest]_vars

NextSigner == CallGenerateAuthHeader \/ Tick

InitSignerObject == InitSigner /\ IdleRest /\ IdlePure /\ IdleQL /\ IdleCaller

SpecSigner == InitSignerObject /\ [][NextSigner]_vars

NextReuse == SignAgain \/ Tick

InitReusedSigner == InitReuse /\ IdleRest /\ IdlePure /\ IdleQL

SpecReuse == InitReusedSigner /\ [][NextReuse]_vars

NextShared == \/ StepNonce \/ StepTimestamp \/ StepNormalize
              \/ StepBaseString \/ StepSignature \/ StepHeader

InitSharedSigner == InitShared /\ IdleRest /\ IdlePure /\ IdleQL

SpecShared == InitSharedSigner /\ [][NextShared]_vars

NextQL == CallSuiteql \/ Query \/ ServerRespond \/ ProcessResponse

InitQLClient == InitQL /\ IdleRest /\ IdlePure /\ IdleCaller

SpecQL == InitQLClient /\ [][NextQL]_vars

\* the library as a whole: the caller drives one of its objects
Init == InitStatic \/ InitSignerObject \/ InitRestClient \/ InitQLClient
        \/ InitNormalization \/ InitReusedSigner \/ InitSharedSigner

Next == \/ CallEncodeOauth \/ CallParseUrlParameters \/ CallNormalize
        \/ CallGenerateAuthHeader \/ Tick \/ SignAgain
        \/ StepNonce \/ StepTimestamp \/ StepNormalize
        \/ StepBaseString \/ StepSignature \/ StepHeader
        \/ RestGet \/ RestPost \/ RestPut \/ RestPatch \/ RestDelete
        \/ CallSuiteql \/ Query \/ ServerRespond \/ ProcessResponse

Spec == Init /\ [][Next]_vars

---------------------------------------------------------------------------
(* Properties of suiteql *)

Last(seq) == seq[Len(seq)]

\* the items of the pages, joined in the order the pages were received
RECURSIVE ConcatItems(_)
ConcatItems(ps) == IF ps = <<>> THEN <<>>
                   ELSE Head(ps).items \o ConcatItems(Tail(ps))

\* the hrefs a page lists under the relation "next"
NextLinks(p) == {p.links[i].href : i \in {j \in 1..Len(p.links) : p.links[j].rel = "next"}}

\* an OK page with content that reports hasMore=true and carries a next link
ContinuingPage(p) == p.ok /\ p.status_code = 200 /\ p.hasMore /\ NextLinks(p) # {}

\* an OK page with content that reports hasMore=false
FinalPage(p) == p.ok /\ p.status_code = 200 /\ ~p.hasMore

\* a page that is not OK or that reports hasMore=false
StoppingPage(p) == ~p.ok \/ ~p.hasMore

\* n >= 1 OK pages, the first n-1 continuing and the n-th final
CompletePagination(ps) ==
    /\ Len(ps) >= 1
    /\ \A i \in 1..(Len(ps) - 1) : ContinuingPage(ps[i])
    /\ FinalPage(Last(ps))

\* C1: on a newly constructed client, when the pages received are n >= 1
\* OK pages of which the first n-1 report hasMore=true with a next link and
\* the n-th reports hasMore=false, suiteql has returned the list of all
\* their items in the order received, and has posted exactly n requests.
C1_PaginationConcatenates ==
    (component = "suiteql" /\ callNo = 1 /\ CompletePagination(pages))
        => /\ pc = "returned"
           /\ result = [kind |-> "list", value |-> ConcatItems(pages)]
           /\ Len(requests) = Len(pages)

\* three pages, with an item repeated across pages and out of order
C1_Witness ==
    /\ component = "suiteql" /\ callNo = 1 /\ pc = "returned"
    /\ Len(pages) = 3 /\ CompletePagination(pages)
    /\ pages[1].items = I1 /\ pages[2].items = I2 /\ pages[3].items = I1
    /\ result.value = <<1, 2, 1, 1>>

\* C2 (as claimed): no request is posted after the first page that is not
\* OK or that reports hasMore=false, and the call has returned once that
\* page has been processed, so such a page ends the call.
C2_ReturnsAtStoppingPage ==
    component = "suiteql" =>
        \A i \in 1..Len(pages) :
            StoppingPage(pages[i]) => /\ i = Len(pages)
                                      /\ Len(requests) = i
                                      /\ inflight = <<>>
                                      /\ pc = "returned"

\* C3 (as claimed): whenever the last page received is not OK, suiteql has
\* returned normally, with an empty result.
C3_NotOkReturnsEmpty ==
    (component = "suiteql" /\ pages # <<>> /\ ~Last(pages).ok)
        => pc = "returned" /\ result.kind # "none" /\ result.value = <<>>

\* C5: the first request of a call goes to the client's query URL, every
\* later one to the URL under "next" of the page received just before it,
\* and a request is posted only when every earlier one has been answered
\* and its response processed.
C5_RequestsFollowNextLinks ==
    component = "suiteql" =>
        /\ Len(inflight) <= 1
        /\ requests # <<>> => requests[1] = QueryUrl
        /\ \A i \in 2..Len(requests) :
               /\ i - 1 <= Len(pages)
               /\ NextLinks(pages[i - 1]) = {requests[i]}
        /\ Len(pages) <= Len(requests)
        /\ Len(requests) <= Len(pages) + 1
        /\ inflight # <<>> => (pc = "waiting" /\ Len(pages) = Len(requests) - 1)
        /\ pc = "parse" => (inflight = <<>> /\ Len(pages) = Len(requests) - 1)
        /\ inflight # <<>> => Last(requests) = inflight[1].url

\* a third request is in flight, to a next link other than the second's
C5_Witness ==
    /\ component = "suiteql" /\ pc = "waiting"
    /\ Len(requests) = 3 /\ requests[2] = N1 /\ requests[3] = N2
    /\ inflight # <<>>

---------------------------------------------------------------------------
(* Properties of the verb wrappers *)

\* the method a base string "METHOD&url&parameters" was built with
BaseStringMethod(base_string) == Split1(base_string, "&")[1]

\* C4 (as claimed): the method in the signature base string of the
\* Authorization header equals the method of the request the wrapper sent
\* with that header.
C4_SignedMethodIsSentMethod ==
    (component = "rest" /\ sent.issued)
        => /\ signing.http_method = sent.method
           /\ BaseStringMethod(auth.base_string) = sent.method

\* the set of entries of a dict
Entries(d) == {d[i] : i \in 1..Len(d)}

\* C9: a request sent for a caller who passed a non-empty header mapping
\* carries exactly the caller's entries, with Authorization set to the
\* value computed in this call, and no default; a request sent for a
\* caller who passed no headers carries exactly the four default entries.
C9_HeadersSent ==
    (component = "rest" /\ sent.issued) =>
        /\ signing.called /\ ~signing.raised /\ signing.url = sent.url
        /\ \E u4 \in ClientUuid4Hex : auth.nonce = u4 \o DecStr(uuidClock - 1)
        /\ Len(sent.headers) = Cardinality(DictKeys(sent.headers))
        /\ (IsDict(call.headers) /\ call.headers.items # <<>>) =>
               Entries(sent.headers) =
                   {e \in Entries(call.headers.items) : e[1] # H_Authorization}
                   \cup {<<H_Authorization, auth.oauth_string>>}
        /\ call.headers.kind = "none" =>
               Entries(sent.headers) = { <<H_Prefer, V_transient>>,
                                         <<H_ContentType, V_json>>,
                                         <<H_Authorization, auth.oauth_string>>,
                                         <<H_CacheControl, V_nocache>> }

\* patch sent a request for a caller whose headers carried an Authorization
\* of their own and a Prefer other than the default
C9_Witness ==
    /\ component = "rest" /\ sent.issued /\ call.verb = "patch"
    /\ call.headers = ArgDict(HdrStale)
    /\ DictGet(sent.headers, H_Authorization) = auth.oauth_string
    /\ DictGet(sent.headers, H_Authorization) # DictGet(HdrStale, H_Authorization)

---------------------------------------------------------------------------
(* Properties of the signer *)

\* the names in the raw query string of a URL: what precedes the first "="
\* of every non-empty field after the first "?"
RawQueryNames(url) ==
    LET parts == Split1(url, "?")
        fields == IF Len(parts) = 2 THEN Split(parts[2], "&") ELSE <<>>
    IN  {Split1(fields[i], "=")[1] : i \in {j \in 1..Len(fields) : fields[j] # <<>>}}

\* C7 (as claimed): the parameters normalized by a sign call hold the six
\* OAuth parameters with the signer's own values for the call, an entry
\* for every parameter of the URL's query string, and no oauth_signature.
C7_NormalizedParameterSet ==
    (component = "signer" /\ signing.called) =>
        LET request_params == signing.request_params
        IN  /\ {K_consumer_key, K_token, K_signature_method, K_timestamp,
                K_nonce, K_version} \subseteq DictKeys(request_params)
            /\ DictGet(request_params, K_consumer_key) = auth.consumer_key
            /\ DictGet(request_params, K_token) = auth.token_key
            /\ DictGet(request_params, K_signature_method) = auth.signature_method
            /\ DictGet(request_params, K_timestamp) = auth.timestamp
            /\ DictGet(request_params, K_nonce) = auth.nonce
            /\ DictGet(request_params, K_version) = Version10
            /\ RawQueryNames(signing.url) \subseteq DictKeys(request_params)
            /\ K_signature \notin DictKeys(request_params)

\* C8 (as claimed): a generate_auth_header call on a signer with an absent
\* consumer key, consumer secret, token key or token secret raises, and
\* leaves no nonce, timestamp, base string or signature on the signer.
C8_AbsentCredentialFailsFirst ==
    (/\ component = "signer" /\ signing.called
     /\ NONE \in {auth.consumer_key, auth.consumer_secret,
                  auth.token_key, auth.token_secret})
        => /\ signing.raised
           /\ auth.nonce = NONE
           /\ auth.timestamp = NONE
           /\ auth.base_string = NONE
           /\ auth.signature = NONE

---------------------------------------------------------------------------
(* Properties of the static helpers *)

\* RFC 3986 percent-encoding: unreserved characters as they are, any other
\* character as %XX of each of its UTF-8 octets
RECURSIVE PctOctets3986(_)
PctOctets3986(octets) ==
    IF octets = <<>> THEN <<>>
    ELSE PctOctet(Head(octets)) \o PctOctets3986(Tail(octets))

RECURSIVE PercentEncode3986(_)
PercentEncode3986(s) ==
    IF s = <<>> THEN <<>>
    ELSE (IF Head(s) \in Letters \cup Digits \cup {"-", ".", "_", "~"}
          THEN <<Head(s)>>
          ELSE PctOctets3986(Utf8(Head(s))))
         \o PercentEncode3986(Tail(s))

\* C6 (as claimed): encode_oauth keeps unreserved characters, encodes any
\* other character as uppercase %XX of its UTF-8 octets, and a space as
\* %20, never as "+".
C6_EncodeIsRfc3986 ==
    (component = "static" /\ pureOp = "encode" /\ pureDone)
        => encoded = PercentEncode3986(pureArg)

\* C10 (as claimed): parse_url_parameters splits at the first "?": the
\* base URL is what precedes it and the query string all that follows it,
\* parsed to one value per name; without a "?" the base URL is the input
\* and there are no parameters.
C10_SplitsAtFirstQuestionMark ==
    (component = "static" /\ pureOp = "parse" /\ pureDone) =>
        LET parts == Split1(pureArg, "?")
        IN  /\ parsed.base_url = parts[1]
            /\ IF Len(parts) = 2
               THEN /\ ~parsed.parameters.isNone
                    /\ parsed.parameters.items = FirstValues(ParseQsl(parts[2]), <<>>)
               ELSE parsed.parameters.items = <<>>

---------------------------------------------------------------------------
(* Further properties of suiteql *)

\* an OK page with content that reports hasMore=true without a next link
DanglingPage(p) == p.ok /\ p.status_code = 200 /\ p.hasMore /\ NextLinks(p) = {}

\* C15 (as claimed): the list a suiteql call returns holds only the items
\* of the pages fetched during that call, whatever earlier calls on the
\* client did.
C15_ResultOfThisCallOnly ==
    (component = "suiteql" /\ pc = "returned" /\ result.kind = "list")
        => result.value = ConcatItems(pages)

\* C19: processing an OK page with status 204 reads no body: the page has
\* no items, no links and hasMore=false; the call returns at that step
\* with the list as it was, and posts nothing more.
C19_NoContentPageEndsLoop ==
    [][(component = "suiteql" /\ pc = "parse" /\ resp.ok /\ resp.status_code = 204)
        => /\ QueryResponse(resp) = [ok |-> TRUE, links |-> <<>>,
                                     hasMore |-> FALSE, items |-> <<>>]
           /\ pc' = "returned"
           /\ response_body' = response_body
           /\ result' = [kind |-> "list", value |-> response_body]
           /\ requests' = requests
           /\ inflight' = <<>>]_vars

\* a first page with items and more to come, then a 204: the call
\* returned the first page's items
C19_Witness ==
    /\ component = "suiteql" /\ callNo = 1 /\ pc = "returned"
    /\ Len(pages) = 2 /\ ContinuingPage(pages[1]) /\ pages[1].items = I2
    /\ pages[2].ok /\ pages[2].status_code = 204
    /\ result = [kind |-> "list", value |-> I2]
    /\ Len(requests) = 2

\* C20: an OK page that reports hasMore=true and has no next link is the
\* last page of its call: the call has raised there, without a result,
\* and every request it posted preceded that page.
C20_MissingNextRaises ==
    component = "suiteql" =>
        \A i \in 1..Len(pages) :
            DanglingPage(pages[i]) => /\ i = Len(pages)
                                      /\ pc = "raised"
                                      /\ result = NoResult
                                      /\ Len(requests) = i
                                      /\ inflight = <<>>

\* the second page of a call has more but no next link
C20_Witness ==
    /\ component = "suiteql" /\ pc = "raised"
    /\ Len(pages) = 2 /\ ContinuingPage(pages[1]) /\ DanglingPage(pages[2])
    /\ requests = <<QueryUrl, NextUrlAfter(QueryResponse(pages[1]), QueryUrl)>>

---------------------------------------------------------------------------
(* Further properties of the signer *)

\* str.upper() for ASCII strings
Upper(s) == [i \in 1..Len(s) |->
                IF Ord(s[i]) \in 97..122 THEN Ascii[Ord(s[i]) - 63] ELSE s[i]]

\* C18 (as claimed): the base string is METHOD&encode_oauth(base URL)&
\* normalized parameters, with METHOD the upper-cased method passed and the
\* base URL the URL up to its query string.
C18_BaseStringUpperCasesMethod ==
    (component = "signer" /\ signing.called) =>
        auth.base_string = Upper(Fmt(signing.http_method)) \o <<"&">>
                           \o encode_oauth(Split1(signing.url, "?")[1]) \o <<"&">>
                           \o auth.normalized_request_parameters

\* the Authorization value that lists the given values in the fixed order
AuthorizationOf(realm, consumer_key, token_key, timestamp, nonce, signature) ==
    <<"O","A","u","t","h"," ","r","e","a","l","m","=","\"">> \o realm
    \o <<"\"",",">> \o K_consumer_key \o <<"=","\"">> \o consumer_key
    \o <<"\"",",">> \o K_token \o <<"=","\"">> \o token_key
    \o <<"\"",",">> \o K_signature_method \o <<"=","\"">> \o HmacSha256Name
    \o <<"\"",",">> \o K_timestamp \o <<"=","\"">> \o timestamp
    \o <<"\"",",">> \o K_nonce \o <<"=","\"">> \o nonce
    \o <<"\"",",">> \o K_version \o <<"=","\"">> \o Version10
    \o <<"\"",",">> \o K_signature \o <<"=","\"">> \o signature
    \o <<"\"">>

\* C14 (as claimed): the Authorization value a sign call returns lists
\* realm, consumer key, token, signature method, timestamp, nonce, version
\* and signature in that order; its signature is the percent-encoded
\* Base64 HMAC-SHA256, keyed consumer secret & token secret, of the base
\* string of this call's method and URL, whose oauth_nonce and
\* oauth_timestamp are the ones the header carries.
C14_HeaderConsistent ==
    (component = "signer" /\ signing.called /\ ~signing.raised) =>
        /\ auth.headers.items = DefaultHeaders(auth.oauth_string)
        /\ auth.oauth_string =
               AuthorizationOf(auth.realm, auth.consumer_key, auth.token_key,
                               auth.timestamp, auth.nonce, auth.signature)
        /\ auth.signature =
               encode_oauth(B64HmacSha256(
                   Fmt(auth.consumer_secret) \o <<"&">> \o Fmt(auth.token_secret),
                   auth.base_string))
        /\ auth.base_string =
               Fmt(signing.http_method) \o <<"&">>
               \o encode_oauth(Split1(signing.url, "?")[1]) \o <<"&">>
               \o encode_oauth(DropLast(ParamString(SortedParams(signing.request_params))))
        /\ DictGet(signing.request_params, K_nonce) = auth.nonce
        /\ DictGet(signing.request_params, K_timestamp) = auth.timestamp

---------------------------------------------------------------------------
(* Further properties of the verb wrappers *)

\* a headers or body argument was passed that is not a mapping
NonMappingArgument(c) == c.headers.kind = "str" \/ c.body.kind = "str"

\* C13 (as claimed): a wrapper called with a headers or body argument that
\* is not a mapping raises a TypeError, and has neither generated a
\* signature nor sent a request.
C13_NonMappingRaisesFirst ==
    [][(component = "rest" /\ NonMappingArgument(call'))
        => /\ outcome' \in {"TypeError(headers)", "TypeError(body)"}
           /\ sent' = NoRequest
           /\ auth' = auth
           /\ uuidClock' = uuidClock]_vars

---------------------------------------------------------------------------
(* Properties of the normalization *)

\* name=value of the entries of S, joined with "&" in ascending order of
\* the names
RECURSIVE JoinedAscending(_)
JoinedAscending(S) ==
    IF S = {} THEN <<>>
    ELSE LET least == CHOOSE e \in S : \A f \in S \ {e} : StrLess(e[1], f[1])
         IN  least[1] \o <<"=">> \o least[2]
             \o (IF S = {least} THEN <<>>
                 ELSE <<"&">> \o JoinedAscending(S \ {least}))

---------------------------------------------------------------------------
(* Properties of a signer that is used again *)

\* C11: any two generate_auth_header calls on one signer, also for the
\* same method and URL in the same second, have different nonces, and the
\* Authorization values they return differ.
C11_NoncesDiffer ==
    component = "reuse" =>
        \A i, j \in 1..Len(log) :
            i < j => /\ log[i].nonce # log[j].nonce
                     /\ (~log[i].raised /\ ~log[j].raised) =>
                            DictGet(log[i].headers, H_Authorization)
                                # DictGet(log[j].headers, H_Authorization)

\* two calls with the same URL and the same uuid4 draw in the same second
C11_Witness ==
    /\ component = "reuse" /\ Len(log) >= 2
    /\ log[1].url = log[2].url /\ log[1].uuid4hex = log[2].uuid4hex
    /\ log[1].now = log[2].now
    /\ ~log[1].raised /\ ~log[2].raised

\* C17: what a generate_auth_header call returns is what a signer newly
\* constructed with the same credentials returns for the method, URL,
\* nonce and timestamp of that call, whatever calls came before it.
C17_HeaderIndependentOfHistory ==
    component = "reuse" =>
        \A i \in 1..Len(log) :
            LET new == generate_auth_header(
                           NetsuiteOAuthInit(auth.realm, auth.consumer_key,
                                             auth.consumer_secret, auth.token_key,
                                             auth.token_secret),
                           log[i].http_method, log[i].url, log[i].uuid4hex,
                           log[i].uuid1hex, log[i].now)
            IN  /\ log[i].raised = new.raised
                /\ log[i].headers = new.headers

\* a call without query parameters after one with query parameters
C17_Witness ==
    /\ component = "reuse" /\ Len(log) = 2
    /\ log[1].url = U_collide /\ log[2].url = U_plain
    /\ ~log[1].raised /\ ~log[2].raised

---------------------------------------------------------------------------
(* Properties of a signer shared by concurrent calls *)

\* the oauth_signature of a call of its own: method and URL as passed, the
\* given nonce and timestamp, the signer's credentials
SignatureOver(self, http_method, url, nonce, timestamp) ==
    LET pu == parse_url_parameters(url)
        own == [self EXCEPT !.nonce = nonce, !.timestamp = timestamp]
    IN  generate_signature(
            SetBaseString(normalize_request_parameters(own, pu.parameters),
                          http_method, pu.base_url)).signature

\* C16 (as claimed): when two generate_auth_header calls on one signer
\* interleave, the header each call returns carries a signature computed
\* over the call's own method and URL and over the nonce and timestamp
\* that the header carries.
C16_Reentrant ==
    component = "shared" =>
        \A t \in Threads :
            (threads[t].pc = "done" /\ ~threads[t].ret.raised) =>
                /\ DictGet(threads[t].ret.headers, H_Authorization) =
                       AuthorizationOf(auth.realm, auth.consumer_key, auth.token_key,
                                       threads[t].ret.timestamp, threads[t].ret.nonce,
                                       threads[t].ret.signature)
                /\ threads[t].ret.signature =
                       SignatureOver(auth, threads[t].http_method, threads[t].url,
                                     threads[t].ret.nonce, threads[t].ret.timestamp)

===========================================================================
